---------------------------- MODULE Spec2Model ----------------------------
(***************************************************************************)
(* Model of meal_planner_email.py: the weekly menu agent.                  *)
(*                                                                         *)
(* Text is modelled as sequences.  An ingredient, a list-item text or an   *)
(* environment value is a sequence of one-character strings, so that       *)
(* str.strip() and str.lower() are computed and not assumed.  A title or a *)
(* recipe name is a sequence of words and blanks.  A URL or an href is a   *)
(* sequence of its origin, path prefix and slug, so that str.startswith()  *)
(* is a prefix test on the sequence.  A result is a record whose field     *)
(* raised names the exception that left the function, "none" if it         *)
(* returned.  The ingredient values of a structured-data block are         *)
(* strings, as the annotation of parse_recipe declares them.               *)
(***************************************************************************)
EXTENDS Integers, Sequences, FiniteSets, TLC

VARIABLES
    pc,                 \* control position of the process / of the function under study
    now,                \* wall clock, in polls of the scheduler loop
    next_run,           \* schedule's next_run of the registered job
    env,                \* os.environ: the three configuration variables
    stdout,             \* what the current firing printed
    net,                \* network actions of the current firing, in order
    outbox,             \* messages submitted by server.sendmail in the current firing
    exc,                \* the exception that left job(), "none" if none did
    listing,            \* the blog page as served: [ok, anchors]
    recipe_urls,        \* result of get_recipe_urls
    page,               \* a recipe page as served
    recipe,             \* result of parse_recipe
    all_ingredients,    \* build_menu's concatenated ingredient list
    unique_ingredients, \* build_menu's shopping list
    selected,           \* random.sample(urls, 5)
    failing,            \* the recipe URLs whose request fails
    built,              \* result of build_menu
    menu,               \* compose_email's menu argument
    corpo,              \* result of compose_email
    mail                \* result of send_email in the current firing

vars == <<pc, now, next_run, env, stdout, net, outbox, exc, listing, recipe_urls,
          page, recipe, all_ingredients, unique_ingredients, selected, failing,
          built, menu, corpo, mail>>

-----------------------------------------------------------------------------
(* Bounds of the model *)

MaxAnchors == 4      \* anchors of a listing page in SpecLinks
MaxItems == 3        \* ingredient strings aggregated in SpecAgg
MaxElems == 3        \* body elements of a recipe page in SpecParse
MaxMenu == 6         \* menu entries handed to compose_email in SpecCompose
MaxShop == 2         \* shopping-list items handed to compose_email in SpecCompose
MaxWeeks == 2        \* weeks the clock runs through
PollsPerWeek == 2    \* polls of the scheduler loop in a week (10080 in the program)

-----------------------------------------------------------------------------
(* Sequences *)

Range(s) == {s[i] : i \in 1..Len(s)}

SeqsUpTo(S, n) == UNION {[1..k -> S] : k \in 0..n}

StartsWith(s, prefix) ==
    /\ Len(s) >= Len(prefix)
    /\ \A i \in 1..Len(prefix) : s[i] = prefix[i]

\* list(dict.fromkeys(s)): the first occurrence of each element, in order
RECURSIVE FromKeys(_, _)
FromKeys(s, acc) ==
    IF s = <<>> THEN acc
    ELSE FromKeys(Tail(s), IF Head(s) \in Range(acc) THEN acc ELSE Append(acc, Head(s)))

-----------------------------------------------------------------------------
(* get_recipe_urls *)

\* the blog post, as its URL's origin, path and slug
BLOG_URL ==
    <<"https://panelinha.com.br", "/blog/ritalobo/post/",
      "top-13-cardapios-para-resolver-o-jantar-da-semana">>

ORIGIN == "https://www.panelinha.com.br"
RECEITA == "/receita/"

FetchResult(ok, value) == [raised |-> IF ok THEN "none" ELSE "FetchError", value |-> value]

\* variant of CollectHrefs: a relative href is kept as it is
RECURSIVE CollectHrefs_NoResolve(_)
CollectHrefs_NoResolve(anchors) ==
    IF anchors = <<>> THEN <<>>
    ELSE LET a == Head(anchors)
             rest == CollectHrefs_NoResolve(Tail(anchors))
         IN  IF ~a.has_href THEN rest
             ELSE IF StartsWith(a.href, <<ORIGIN, RECEITA>>) THEN <<a.href>> \o rest
             ELSE IF StartsWith(a.href, <<RECEITA>>) THEN <<a.href>> \o rest
             ELSE rest

\* the loop over soup.find_all("a", href=True)
RECURSIVE CollectHrefs(_)
CollectHrefs(anchors) ==
    IF anchors = <<>> THEN <<>>
    ELSE LET a == Head(anchors)
             rest == CollectHrefs(Tail(anchors))
         IN  IF ~a.has_href THEN rest
             ELSE IF StartsWith(a.href, <<ORIGIN, RECEITA>>) THEN <<a.href>> \o rest
             ELSE IF StartsWith(a.href, <<RECEITA>>) THEN <<<<ORIGIN>> \o a.href>> \o rest
             ELSE rest

get_recipe_urls(lst) ==
    IF ~lst.ok THEN FetchResult(FALSE, <<>>)
    ELSE FetchResult(TRUE, FromKeys(CollectHrefs(lst.anchors), <<>>))


-----------------------------------------------------------------------------
(* Text: str.strip, str.lower and the order of sorted() *)

\* code points of the characters the model uses
Ord(c) ==
    CASE c = " " -> 32
      [] c = "S" -> 83
      [] c = "T" -> 84
      [] c = "a" -> 97
      [] c = "b" -> 98
      [] c = "c" -> 99
      [] c = "d" -> 100
      [] c = "e" -> 101
      [] c = "f" -> 102
      [] c = "s" -> 115
      [] c = "t" -> 116

IsSpace(c) == c = " "

LowerChar(c) ==
    CASE c = "S" -> "s"
      [] c = "T" -> "t"
      [] OTHER -> c

Lower(s) == [i \in 1..Len(s) |-> LowerChar(s[i])]

RECURSIVE LStrip(_)
LStrip(s) == IF s /= <<>> /\ IsSpace(Head(s)) THEN LStrip(Tail(s)) ELSE s

RECURSIVE RStrip(_)
RStrip(s) ==
    IF s /= <<>> /\ IsSpace(s[Len(s)]) THEN RStrip(SubSeq(s, 1, Len(s) - 1)) ELSE s

Strip(s) == RStrip(LStrip(s))

\* Python's < on str: lexicographic on code points, a proper prefix is smaller
RECURSIVE StrLess(_, _)
StrLess(a, b) ==
    IF b = <<>> THEN FALSE
    ELSE IF a = <<>> THEN TRUE
    ELSE IF Ord(Head(a)) /= Ord(Head(b)) THEN Ord(Head(a)) < Ord(Head(b))
    ELSE StrLess(Tail(a), Tail(b))

-----------------------------------------------------------------------------
(* build_menu, lines 152-158: the shopping list *)

\* key = item.strip().lower()
KeyOf(item) == Lower(Strip(item))

HasKey(normalized, key) == \E i \in 1..Len(normalized) : normalized[i].key = key

\* variant of NormalizeStep: a later occurrence replaces the value of its key
NormalizeStep_LastWins(item, normalized) ==
    IF HasKey(normalized, KeyOf(item))
    THEN [i \in 1..Len(normalized) |->
            IF normalized[i].key = KeyOf(item)
            THEN [key |-> KeyOf(item), value |-> Strip(item)]
            ELSE normalized[i]]
    ELSE Append(normalized, [key |-> KeyOf(item), value |-> Strip(item)])

\* one turn of "for item in all_ingredients": normalized is the dict, in insertion order
NormalizeStep(item, normalized) ==
    IF HasKey(normalized, KeyOf(item)) THEN normalized
    ELSE Append(normalized, [key |-> KeyOf(item), value |-> Strip(item)])

RECURSIVE Normalize(_, _)
Normalize(items, normalized) ==
    IF items = <<>> THEN normalized
    ELSE Normalize(Tail(items), NormalizeStep(Head(items), normalized))

\* sorted(): stable, so an element goes after every element whose key is not greater
RECURSIVE InsertSorted(_, _)
InsertSorted(x, sorted) ==
    IF sorted = <<>> THEN <<x>>
    ELSE IF StrLess(Lower(x), Lower(Head(sorted))) THEN <<x>> \o sorted
    ELSE <<Head(sorted)>> \o InsertSorted(x, Tail(sorted))

RECURSIVE SortedByLower(_, _)
SortedByLower(values, acc) ==
    IF values = <<>> THEN acc
    ELSE SortedByLower(Tail(values), InsertSorted(Head(values), acc))

UniqueIngredients(items) ==
    LET normalized == Normalize(items, <<>>)
    IN  SortedByLower([i \in 1..Len(normalized) |-> normalized[i].value], <<>>)

-----------------------------------------------------------------------------
(* parse_recipe *)

(***************************************************************************)
(* A recipe page as served:                                                *)
(*   ok      the request succeeded (requests.get and raise_for_status)     *)
(*   title   [present, text]: the <title> element                          *)
(*   script  [present, json, has_name, name, has_ing, ing]: the element    *)
(*           with id js_recipe_schema; present is "script_tag and          *)
(*           script_tag.string"; json is what json.loads makes of the      *)
(*           text: "invalid" (JSONDecodeError), "array" (a value that is   *)
(*           no dict) or "object" (a dict with the optional keys)          *)
(*   body    the headings and lists of the page in document order, each    *)
(*           [tag, text, items]                                            *)
(***************************************************************************)

ScannedHeadings == {"h2", "h3", "h4", "h5"}

ParseResult(raised, name, ingredients) ==
    [raised |-> raised, name |-> name, ingredients |-> ingredients]

\* "Ingrediente" in h.get_text(): the heading text is a sequence of words
ContainsIngrediente(text) == \E i \in 1..Len(text) : text[i] = "Ingrediente"

\* the non-blank li.get_text(strip=True) of a list of <li>
RECURSIVE LiTexts(_)
LiTexts(items) ==
    IF items = <<>> THEN <<>>
    ELSE LET text == Strip(Head(items))
         IN  (IF text /= <<>> THEN <<text>> ELSE <<>>) \o LiTexts(Tail(items))

\* h.find_next("ul"): the index of the first <ul> after position i, 0 if none
FindNextUl(body, i) ==
    IF \E j \in (i + 1)..Len(body) : body[j].tag = "ul"
    THEN CHOOSE j \in (i + 1)..Len(body) :
            /\ body[j].tag = "ul"
            /\ \A k \in (i + 1)..(j - 1) : body[k].tag /= "ul"
    ELSE 0

\* lines 113-120, from element i on
RECURSIVE FromHeadings(_, _)
FromHeadings(body, i) ==
    IF i > Len(body) THEN <<>>
    ELSE LET ul == FindNextUl(body, i)
             here == IF /\ body[i].tag \in ScannedHeadings
                        /\ ContainsIngrediente(body[i].text)
                        /\ ul /= 0
                     THEN LiTexts(body[ul].items)
                     ELSE <<>>
         IN  here \o FromHeadings(body, i + 1)

\* lines 122-125: soup.find_all("li")
RECURSIVE AllLi(_)
AllLi(body) ==
    IF body = <<>> THEN <<>>
    ELSE (IF Head(body).tag \in {"ul", "ol"} THEN LiTexts(Head(body).items) ELSE <<>>)
         \o AllLi(Tail(body))

\* variant of Fallback: the whole-page scan is added to the heading scan
Fallback_Mixed(body) == FromHeadings(body, 1) \o AllLi(body)

\* lines 111-125, entered with no ingredients
Fallback(body) ==
    IF FromHeadings(body, 1) /= <<>> THEN FromHeadings(body, 1) ELSE AllLi(body)

parse_recipe(url, p) ==
    IF ~p.ok THEN ParseResult("FetchError", <<>>, <<>>)
    ELSE LET title == IF p.title.present THEN Strip(p.title.text) ELSE url
         IN  IF p.script.present /\ p.script.json = "array"
             \* data.get on a value that is no dict: not a JSONDecodeError, not caught
             THEN ParseResult("AttributeError", <<>>, <<>>)
             ELSE LET decoded == p.script.present /\ p.script.json = "object"
                      name == IF decoded /\ p.script.has_name THEN p.script.name ELSE title
                      ingredients == IF decoded /\ p.script.has_ing THEN p.script.ing
                                     ELSE <<>>
                  IN  ParseResult("none", name,
                                  IF ingredients /= <<>> THEN ingredients
                                  ELSE Fallback(p.body))

-----------------------------------------------------------------------------
(* build_menu *)

SampleSize == 5

\* what random.sample(urls, 5) can return: 5 elements at pairwise distinct positions
Samples(urls) ==
    {[i \in 1..SampleSize |-> urls[f[i]]] :
        f \in {g \in [1..SampleSize -> 1..Len(urls)] :
                 \A a, b \in 1..SampleSize : a /= b => g[a] /= g[b]}}

BuildResult(raised, m, ingredients, calls, fetched, out) ==
    [raised |-> raised, menu |-> m, ingredients |-> ingredients,
     calls |-> calls, fetched |-> fetched, stdout |-> out]

\* variant of LoopStep: a URL whose parse raised is kept in the menu
LoopStep_KeepFailed(acc, url, p) ==
    LET r == parse_recipe(url, p)
    IN  [acc EXCEPT !.calls = Append(@, url),
                    !.menu = Append(@, <<r.name, url>>),
                    !.all_ingredients = @ \o r.ingredients]

\* one turn of "for url in selected" on the page served for url
LoopStep(acc, url, p) ==
    LET r == parse_recipe(url, p)
    IN  IF r.raised /= "none"
        THEN [acc EXCEPT !.calls = Append(@, url),
                         !.stdout = Append(@, <<"Falha ao processar", url, r.raised>>)]
        ELSE [acc EXCEPT !.calls = Append(@, url),
                         !.menu = Append(@, <<r.name, url>>),
                         !.all_ingredients = @ \o r.ingredients]

RECURSIVE Loop(_, _, _)
Loop(acc, sel, web) ==
    IF sel = <<>> THEN acc
    ELSE Loop(LoopStep(acc, Head(sel), web[Head(sel)]), Tail(sel), web)

LoopStart == [menu |-> <<>>, all_ingredients |-> <<>>, calls |-> <<>>, stdout |-> <<>>]

\* variant of build_menu: no check of the number of URLs
build_menu_NoMinimum(lst, sel, web) ==
    LET got == get_recipe_urls(lst)
    IN  IF got.raised /= "none"
        THEN BuildResult(got.raised, <<>>, <<>>, <<>>, <<BLOG_URL>>, <<>>)
        ELSE LET acc == Loop(LoopStart, sel, web)
             IN  BuildResult("none", acc.menu, UniqueIngredients(acc.all_ingredients),
                             acc.calls, <<BLOG_URL>> \o acc.calls, acc.stdout)

\* sel is the sample drawn at line 141 (not drawn when line 138 raises); web maps
\* each URL to the page served for it
build_menu(lst, sel, web) ==
    LET got == get_recipe_urls(lst)
    IN  IF got.raised /= "none"
        THEN BuildResult(got.raised, <<>>, <<>>, <<>>, <<BLOG_URL>>, <<>>)
        ELSE IF Len(got.value) < SampleSize
        THEN BuildResult("RuntimeError", <<>>, <<>>, <<>>, <<BLOG_URL>>, <<>>)
        ELSE LET acc == Loop(LoopStart, sel, web)
             IN  BuildResult("none", acc.menu, UniqueIngredients(acc.all_ingredients),
                             acc.calls, <<BLOG_URL>> \o acc.calls, acc.stdout)

-----------------------------------------------------------------------------
(* compose_email *)

NL == "\n"

dias_semana ==
    <<"Segunda-feira", "Terca-feira", "Quarta-feira", "Quinta-feira", "Sexta-feira">>

RECURSIVE Join(_)
Join(lines) ==
    IF lines = <<>> THEN <<>>
    ELSE IF Len(lines) = 1 THEN Head(lines)
    ELSE Head(lines) \o <<NL>> \o Join(Tail(lines))

\* variant of DayLine: the index is clamped, not taken modulo 5
DayLine_NoCycle(idx, entry) ==
    <<dias_semana[IF idx < Len(dias_semana) THEN idx + 1 ELSE Len(dias_semana)], ": ">>
        \o entry[1] \o <<" -- ">> \o entry[2]

\* f"{dia}: {nome} -- {url}" for the entry at 0-based index idx
DayLine(idx, entry) ==
    <<dias_semana[(idx % Len(dias_semana)) + 1], ": ">>
        \o entry[1] \o <<" -- ">> \o entry[2]

ItemLine(item) == <<"- ">> \o item

compose_email(m, ingredients) ==
    Join(<<<<"Ola! Aqui esta o cardapio semanal sugerido:", NL>>>>
         \o [i \in 1..Len(m) |-> DayLine(i - 1, m[i])]
         \o <<<<NL, "Lista de compras:">>>>
         \o [i \in 1..Len(ingredients) |-> ItemLine(ingredients[i])])

-----------------------------------------------------------------------------
(* send_email *)

\* "not v" for v = os.environ.get(...): None or the empty string
Missing(v) == ~v.set \/ v.value = <<>>

SendResult(raised, actions, sent) == [raised |-> raised, net |-> actions, sent |-> sent]

\* variant of send_email: the connection is opened before the values are checked
send_email_CheckAfterConnect(e, subject, body, smtp) ==
    IF smtp = "connect_fails" THEN SendResult("SMTPException", <<"connect">>, <<>>)
    ELSE IF Missing(e.user) \/ Missing(e.password) \/ Missing(e.recipient)
    THEN SendResult("RuntimeError", <<"connect">>, <<>>)
    ELSE IF smtp = "login_fails"
    THEN SendResult("SMTPException", <<"connect", "login">>, <<>>)
    ELSE IF smtp = "sendmail_fails"
    THEN SendResult("SMTPException", <<"connect", "login", "sendmail">>, <<>>)
    ELSE SendResult("none", <<"connect", "login", "sendmail">>,
                    <<[From |-> e.user.value, To |-> e.recipient.value,
                       Subject |-> subject, body |-> body]>>)

\* e is os.environ at the call; smtp is what the mail server does
send_email(e, subject, body, smtp) ==
    IF Missing(e.user) \/ Missing(e.password) \/ Missing(e.recipient)
    THEN SendResult("RuntimeError", <<>>, <<>>)
    ELSE IF smtp = "connect_fails" THEN SendResult("SMTPException", <<"connect">>, <<>>)
    ELSE IF smtp = "login_fails"
    THEN SendResult("SMTPException", <<"connect", "login">>, <<>>)
    ELSE IF smtp = "sendmail_fails"
    THEN SendResult("SMTPException", <<"connect", "login", "sendmail">>, <<>>)
    ELSE SendResult("none", <<"connect", "login", "sendmail">>,
                    <<[From |-> e.user.value, To |-> e.recipient.value,
                       Subject |-> subject, body |-> body]>>)

-----------------------------------------------------------------------------
(* job: what follows the call of send_email (lines 219-223) *)

\* variant of AfterSend: the exception of send_email leaves job()
AfterSend_Propagate(r) ==
    IF r.raised = "none"
    THEN [exc |-> "none", print |-> <<"Cardapio enviado com sucesso!">>]
    ELSE [exc |-> r.raised, print |-> <<>>]

\* the exception that leaves job() and what job() prints
AfterSend(r) ==
    IF r.raised = "none"
    THEN [exc |-> "none", print |-> <<"Cardapio enviado com sucesso!">>]
    ELSE [exc |-> "none", print |-> <<"Falha ao enviar o e-mail", r.raised>>]

-----------------------------------------------------------------------------
(* The pages the model serves *)

Url(slug) == <<ORIGIN, RECEITA, slug>>

Slugs == <<"arroz", "bolo", "caldo", "doce", "ervilha", "farofa">>

AllUrls == {Url(Slugs[i]) : i \in 1..Len(Slugs)}

Absolute(slug) == [has_href |-> TRUE, href |-> Url(slug)]
Relative(slug) == [has_href |-> TRUE, href |-> <<RECEITA, slug>>]

\* anchors of a listing page: recipe links in both forms, and links that are none
Anchors ==
    {Absolute("arroz"), Relative("arroz"), Absolute("bolo"), Relative("bolo"),
     [has_href |-> FALSE, href |-> <<>>],
     [has_href |-> TRUE, href |-> BLOG_URL],
     [has_href |-> TRUE, href |-> <<"https://panelinha.com.br", RECEITA, "arroz">>],
     [has_href |-> TRUE, href |-> <<"receita/", "bolo">>]}

NoListing == [ok |-> FALSE, anchors |-> <<>>]

\* a listing page linking the first n recipes, alternately absolute and relative,
\* the first link repeated in its other form at the end
ListingOf(n) ==
    [ok |-> TRUE,
     anchors |-> [i \in 1..n |-> IF i % 2 = 1 THEN Absolute(Slugs[i])
                                 ELSE Relative(Slugs[i])]
                 \o <<Relative(Slugs[1])>>]

NoScript ==
    [present |-> FALSE, json |-> "invalid", has_name |-> FALSE, name |-> <<>>,
     has_ing |-> FALSE, ing |-> <<>>]

Script(json, has_name, name, has_ing, ing) ==
    [present |-> TRUE, json |-> json, has_name |-> has_name, name |-> name,
     has_ing |-> has_ing, ing |-> ing]

Heading(tag, text) == [tag |-> tag, text |-> text, items |-> <<>>]
Ul(items) == [tag |-> "ul", text |-> <<>>, items |-> items]

NoTitle == [present |-> FALSE, text |-> <<>>]
Title(text) == [present |-> TRUE, text |-> text]

Page(title, script, body) == [ok |-> TRUE, title |-> title, script |-> script, body |-> body]

NoPage == [ok |-> FALSE, title |-> NoTitle, script |-> NoScript, body |-> <<>>]

\* the recipe page of each URL
Web(url) ==
    CASE url[3] = "arroz" ->
            Page(Title(<<"Arroz", " ">>),
                 Script("object", TRUE, <<"Arroz branco">>, TRUE, <<<<"T">>, <<"S", "t">>>>),
                 <<Ul(<<<<"s">>>>)>>)
      [] url[3] = "bolo" ->
            Page(Title(<<" ", "Bolo">>),
                 Script("invalid", FALSE, <<>>, FALSE, <<>>),
                 <<Ul(<<<<"s", "s">>>>), Heading("h2", <<"Ingrediente", "s">>),
                   Ul(<<<<" ", "t">>, <<" ">>, <<"S">>>>)>>)
      [] url[3] = "caldo" ->
            Page(Title(<<"Caldo">>), NoScript,
                 <<Heading("h3", <<"Modo de preparo">>), Ul(<<<<"t", " ">>, <<"s">>>>)>>)
      [] url[3] = "doce" ->
            Page(Title(<<"Doce">>), Script("array", FALSE, <<>>, FALSE, <<>>),
                 <<Heading("h2", <<"Ingrediente", "s">>), Ul(<<<<"T", "t">>>>)>>)
      [] url[3] = "ervilha" ->
            Page(NoTitle, Script("object", FALSE, <<>>, FALSE, <<>>), <<>>)
      [] OTHER ->
            Page(Title(<<"Farofa">>),
                 Script("object", TRUE, <<"Farofa">>, TRUE, <<<<"s", "t">>, <<"t">>>>),
                 <<>>)

\* the web of one firing: the requests for the URLs in fl fail
ServedWeb(fl) == [u \in AllUrls |-> [Web(u) EXCEPT !.ok = u \notin fl]]

-----------------------------------------------------------------------------
(* Values of the variables a specification does not use *)

NoResult == [raised |-> "none", value |-> <<>>]
NoRecipe == ParseResult("none", <<>>, <<>>)
NoBuilt == BuildResult("none", <<>>, <<>>, <<>>, <<>>, <<>>)
NoMail == [called |-> FALSE, raised |-> "none", net |-> <<>>, sent |-> <<>>]
Unset == [set |-> FALSE, value |-> <<>>]
NoEnv == [user |-> Unset, password |-> Unset, recipient |-> Unset]

schedVars == <<now, next_run, env, stdout, net, outbox, exc, mail>>
linksVars == <<listing, recipe_urls>>
parseVars == <<page, recipe>>
aggVars == <<all_ingredients, unique_ingredients>>
menuVars == <<selected, failing, built>>
composeVars == <<menu, corpo>>

SchedOff ==
    /\ now = 0 /\ next_run = 0 /\ env = NoEnv /\ stdout = <<>> /\ net = <<>>
    /\ outbox = <<>> /\ exc = "none" /\ mail = NoMail
LinksOff == listing = NoListing /\ recipe_urls = NoResult
ParseOff == page = NoPage /\ recipe = NoRecipe
AggOff == all_ingredients = <<>> /\ unique_ingredients = <<>>
MenuOff == selected = <<>> /\ failing = {} /\ built = NoBuilt
ComposeOff == menu = <<>> /\ corpo = <<>>

-----------------------------------------------------------------------------
(* SpecLinks: get_recipe_urls on every listing page of up to MaxAnchors anchors *)

InitLinks ==
    /\ pc = "start"
    /\ listing \in {NoListing} \cup
                   {[ok |-> TRUE, anchors |-> a] : a \in SeqsUpTo(Anchors, MaxAnchors)}
    /\ recipe_urls = NoResult
    /\ SchedOff /\ ParseOff /\ AggOff /\ MenuOff /\ ComposeOff

ExtractLinks ==
    /\ pc = "start"
    /\ recipe_urls' = get_recipe_urls(listing)
    /\ pc' = "done"
    /\ UNCHANGED <<listing, schedVars, parseVars, aggVars, menuVars, composeVars>>

NextLinks == ExtractLinks

SpecLinks == InitLinks /\ [][NextLinks]_vars

\* the claim's own reading of "an href matching the recipe prefix"
IsAbsoluteRecipe(a) ==
    a.has_href /\ Len(a.href) >= 2 /\ a.href[1] = ORIGIN /\ a.href[2] = RECEITA
IsRelativeRecipe(a) == a.has_href /\ Len(a.href) >= 1 /\ a.href[1] = RECEITA
Matching(anchors) ==
    {i \in 1..Len(anchors) : IsAbsoluteRecipe(anchors[i]) \/ IsRelativeRecipe(anchors[i])}
AbsoluteForm(a) == IF IsRelativeRecipe(a) THEN <<ORIGIN>> \o a.href ELSE a.href
FirstAnchorOf(anchors, url) ==
    CHOOSE i \in Matching(anchors) :
        /\ AbsoluteForm(anchors[i]) = url
        /\ \A j \in Matching(anchors) : AbsoluteForm(anchors[j]) = url => i <= j

\* C10: on a listing page with M matching hrefs, K of them duplicates after
\* normalization, get_recipe_urls returns M-K URLs without duplicates, in order of
\* first occurrence, all absolute under the site origin; other anchors add nothing.
C10_LinkExtractor ==
    (pc = "done" /\ listing.ok) =>
        LET anchors == listing.anchors
            out == recipe_urls.value
            M == Cardinality(Matching(anchors))
            distinct == {AbsoluteForm(anchors[i]) : i \in Matching(anchors)}
            K == M - Cardinality(distinct)
        IN  /\ recipe_urls.raised = "none"
            /\ Len(out) = M - K
            /\ \A i, j \in 1..Len(out) : i /= j => out[i] /= out[j]
            /\ Range(out) = distinct
            /\ \A i, j \in 1..Len(out) :
                   i < j => FirstAnchorOf(anchors, out[i]) < FirstAnchorOf(anchors, out[j])
            /\ \A i \in 1..Len(out) :
                   Len(out[i]) >= 2 /\ out[i][1] = ORIGIN /\ out[i][2] = RECEITA

\* a page with a relative link first, its absolute duplicate, another recipe and a
\* link that is no recipe: two URLs come out, the resolved relative one first
C10_Witness ==
    /\ pc = "done"
    /\ listing.ok
    /\ Len(listing.anchors) = 4
    /\ IsRelativeRecipe(listing.anchors[1])
    /\ Cardinality(Matching(listing.anchors)) = 3
    /\ recipe_urls.value = <<Url("arroz"), Url("bolo")>>

-----------------------------------------------------------------------------
(* SpecAgg: the shopping list of every ingredient sequence of up to MaxItems strings *)

IngredientTexts ==
    {<<"T">>, <<"t">>, <<" ", "T">>, <<"t", " ">>, <<"S">>, <<"s">>,
     <<"S", "t">>, <<"s", "T">>, <<" ">>, <<>>}

InitAgg ==
    /\ pc = "start"
    /\ all_ingredients \in SeqsUpTo(IngredientTexts, MaxItems)
    /\ unique_ingredients = <<>>
    /\ SchedOff /\ LinksOff /\ ParseOff /\ MenuOff /\ ComposeOff

Aggregate ==
    /\ pc = "start"
    /\ unique_ingredients' = UniqueIngredients(all_ingredients)
    /\ pc' = "done"
    /\ UNCHANGED <<all_ingredients, schedVars, linksVars, parseVars, menuVars, composeVars>>

NextAgg == Aggregate

SpecAgg == InitAgg /\ [][NextAgg]_vars

FirstWithKey(items, key) ==
    CHOOSE i \in 1..Len(items) :
        /\ Lower(Strip(items[i])) = key
        /\ \A j \in 1..(i - 1) : Lower(Strip(items[j])) /= key

\* C4: the shopping list has no two entries equal when lowercased, has one entry for
\* each distinct lowercase-trimmed key of the input, keeps for each key the (trimmed)
\* text of its first occurrence, and is sorted by the lowercase of its entries.
C4_ShoppingList ==
    pc = "done" =>
        LET items == all_ingredients
            out == unique_ingredients
            keys == {Lower(Strip(items[i])) : i \in 1..Len(items)}
        IN  /\ \A i, j \in 1..Len(out) : i /= j => Lower(out[i]) /= Lower(out[j])
            /\ {Lower(out[i]) : i \in 1..Len(out)} = keys
            /\ Len(out) = Cardinality(keys)
            /\ \A i \in 1..Len(out) :
                   out[i] = Strip(items[FirstWithKey(items, Lower(out[i]))])
            /\ \A i, j \in 1..Len(out) : i < j => StrLess(Lower(out[i]), Lower(out[j]))

\* ["T", "t", "S"] (Tomate, tomate, Sal) gives ["S", "T"]
C4_Witness ==
    /\ pc = "done"
    /\ all_ingredients = <<<<"T">>, <<"t">>, <<"S">>>>
    /\ unique_ingredients = <<<<"S">>, <<"T">>>>

-----------------------------------------------------------------------------
(* SpecParse: parse_recipe on every page of up to MaxElems body elements *)

PageUrl == Url("bolo")

Titles == {NoTitle, Title(<<" ", "Bolo">>)}

Scripts ==
    {NoScript,
     Script("invalid", FALSE, <<>>, FALSE, <<>>),
     Script("array", FALSE, <<>>, FALSE, <<>>)}
    \cup {Script("object", hn, IF hn THEN <<"X">> ELSE <<>>, ing[1], ing[2]) :
            hn \in BOOLEAN,
            ing \in {<<FALSE, <<>>>>, <<TRUE, <<>>>>, <<TRUE, <<<<"a">>, <<" ", "b">>>>>>}}

Elems ==
    {Heading("h1", <<"Ingrediente", "s">>),
     Heading("h2", <<"Ingrediente", "s">>),
     Heading("h3", <<"ingrediente", "s">>),
     Heading("h4", <<"Modo de preparo">>),
     Ul(<<<<"c">>, <<"d">>>>),
     Ul(<<<<" ", "e", " ">>, <<" ">>>>),
     Ul(<<>>),
     [tag |-> "ol", text |-> <<>>, items |-> <<<<"f">>>>]}

Pages ==
    {NoPage} \cup
    {Page(t, sc, b) : t \in Titles, sc \in Scripts, b \in SeqsUpTo(Elems, MaxElems)}

InitParse ==
    /\ pc = "start"
    /\ page \in Pages
    /\ recipe = NoRecipe
    /\ SchedOff /\ LinksOff /\ AggOff /\ MenuOff /\ ComposeOff

ParseRecipe ==
    /\ pc = "start"
    /\ recipe' = parse_recipe(PageUrl, page)
    /\ pc' = "done"
    /\ UNCHANGED <<page, schedVars, linksVars, aggVars, menuVars, composeVars>>

NextParse == ParseRecipe

SpecParse == InitParse /\ [][NextParse]_vars

\* C7: parse_recipe fails only when the page request fails: on a fetched page it
\* returns a name and ingredients whatever the structured-data block holds.
C7_FailsOnlyOnFetch ==
    (pc = "done" /\ page.ok) => recipe.raised = "none"

\* the chain as the claim states it, the headings of strategy 2 being those of `tags`
Structured(p) ==
    IF p.script.present /\ p.script.json = "object" /\ p.script.has_ing
    THEN p.script.ing ELSE <<>>

RECURSIVE AfterHeadings(_, _, _)
AfterHeadings(body, i, tags) ==
    IF i > Len(body) THEN <<>>
    ELSE (IF /\ body[i].tag \in tags
             /\ "Ingrediente" \in Range(body[i].text)
             /\ FindNextUl(body, i) /= 0
          THEN LiTexts(body[FindNextUl(body, i)].items)
          ELSE <<>>) \o AfterHeadings(body, i + 1, tags)

WholePage(body) ==
    LET lists == SelectSeq(body, LAMBDA e : e.tag \in {"ul", "ol"})
        RECURSIVE Flat(_)
        Flat(ls) == IF ls = <<>> THEN <<>> ELSE LiTexts(Head(ls).items) \o Flat(Tail(ls))
    IN  Flat(lists)

Chain(p, tags) ==
    IF Structured(p) /= <<>> THEN Structured(p)
    ELSE IF AfterHeadings(p.body, 1, tags) /= <<>> THEN AfterHeadings(p.body, 1, tags)
    ELSE WholePage(p.body)

ChainHolds(tags) ==
    (pc = "done" /\ recipe.raised = "none") =>
        /\ recipe.ingredients = Chain(page, tags)
        /\ (Structured(page) /= <<>> /\ page.script.has_name) =>
               recipe = ParseResult("none", page.script.name, page.script.ing)

-----------------------------------------------------------------------------
(* SpecCompose: compose_email on menus of up to MaxMenu entries *)

Entries == {<<<<"Arroz branco">>, Url("arroz")>>, <<<<"Bolo">>, Url("bolo")>>}

ShopItems == {<<"S">>, <<"T", "t">>}

InitCompose ==
    /\ pc = "start"
    /\ menu \in SeqsUpTo(Entries, MaxMenu)
    /\ unique_ingredients \in SeqsUpTo(ShopItems, MaxShop)
    /\ all_ingredients = <<>>
    /\ corpo = <<>>
    /\ SchedOff /\ LinksOff /\ ParseOff /\ MenuOff

Compose ==
    /\ pc = "start"
    /\ corpo' = compose_email(menu, unique_ingredients)
    /\ pc' = "done"
    /\ UNCHANGED <<menu, schedVars, linksVars, parseVars, aggVars, menuVars>>

NextCompose == Compose

SpecCompose == InitCompose /\ [][NextCompose]_vars

\* the lines of a text: its pieces between line feeds
RECURSIVE SplitLines(_, _)
SplitLines(text, line) ==
    IF text = <<>> THEN <<line>>
    ELSE IF Head(text) = NL THEN <<line>> \o SplitLines(Tail(text), <<>>)
    ELSE SplitLines(Tail(text), Append(line, Head(text)))

Weekday(i) ==
    CASE i % 5 = 1 -> "Segunda-feira"
      [] i % 5 = 2 -> "Terca-feira"
      [] i % 5 = 3 -> "Quarta-feira"
      [] i % 5 = 4 -> "Quinta-feira"
      [] OTHER -> "Sexta-feira"

IsWeekdayLine(line) ==
    line /= <<>> /\ line[1] \in {Weekday(i) : i \in 1..5}

IsBulletLine(line) == line /= <<>> /\ line[1] = "- "

\* C9: the body has exactly one weekday line per menu entry, the i-th with the
\* i-th label of Monday..Friday (cycling) followed by the entry's name and URL, and
\* then a shopping-list section with one bullet line per item, in input order.
C9_EmailBody ==
    pc = "done" =>
        LET lines == SplitLines(corpo, <<>>)
            k == Len(menu)
            n == Len(unique_ingredients)
            days == {i \in 1..Len(lines) : IsWeekdayLine(lines[i])}
            bullets == {i \in 1..Len(lines) : IsBulletLine(lines[i])}
            section == k + 4
        IN  /\ Len(lines) = section + n
            /\ days = 3..(k + 2)
            /\ \A i \in 1..k :
                   lines[i + 2] = <<Weekday(i), ": ">> \o menu[i][1] \o <<" -- ">> \o menu[i][2]
            /\ lines[section] = <<"Lista de compras:">>
            /\ bullets = (section + 1)..(section + n)
            /\ \A j \in 1..n : lines[section + j] = <<"- ">> \o unique_ingredients[j]

\* three entries and two items: Monday, Tuesday and Wednesday lines, no other
\* weekday, then the two items
C9_Witness ==
    /\ pc = "done"
    /\ Len(menu) = 3
    /\ Len(unique_ingredients) = 2
    /\ LET lines == SplitLines(corpo, <<>>)
       IN  /\ lines[3][1] = "Segunda-feira" /\ lines[5][1] = "Quarta-feira"
           /\ lines[7] = <<"Lista de compras:">>
           /\ Len(lines) = 9

-----------------------------------------------------------------------------
(* SpecMenu: build_menu on listing pages of 3 to 6 recipes, every sample of five  *)
(* and every set of failing requests                                              *)

MenuListings == {NoListing} \cup {ListingOf(n) : n \in 3..Len(Slugs)}

\* the samples line 141 can draw; none is drawn when build_menu raises before it
SamplesOf(lst) ==
    LET got == get_recipe_urls(lst)
    IN  IF got.raised = "none" /\ Len(got.value) >= SampleSize
        THEN Samples(got.value) ELSE {<<>>}

InitMenu ==
    /\ pc = "start"
    /\ listing \in MenuListings
    /\ selected \in SamplesOf(listing)
    /\ failing \in SUBSET Range(selected)
    /\ built = NoBuilt
    /\ recipe_urls = NoResult
    /\ SchedOff /\ ParseOff /\ AggOff /\ ComposeOff

BuildMenu ==
    /\ pc = "start"
    /\ built' = build_menu(listing, selected, ServedWeb(failing))
    /\ pc' = "done"
    /\ UNCHANGED <<listing, recipe_urls, selected, failing, schedVars, parseVars,
                   aggVars, composeVars>>

NextMenu == BuildMenu

SpecMenu == InitMenu /\ [][NextMenu]_vars

\* the distinct candidate URLs of a listing page
Candidates(lst) == {AbsoluteForm(lst.anchors[i]) : i \in Matching(lst.anchors)}

\* C5: build_menu fails with the insufficient-recipes error exactly when the link
\* extractor returns fewer than 5 distinct URLs, and then no recipe page has been
\* requested or parsed and no menu or shopping list is returned.
C5_InsufficientRecipes ==
    pc = "done" =>
        /\ built.raised = "RuntimeError" <=>
               (listing.ok /\ Cardinality(Candidates(listing)) < 5)
        /\ built.raised = "RuntimeError" =>
               /\ built.calls = <<>>
               /\ built.fetched = <<BLOG_URL>>
               /\ built.menu = <<>>
               /\ built.ingredients = <<>>

\* a page with five recipe anchors of which four are distinct
C5_Witness ==
    /\ pc = "done"
    /\ listing.ok
    /\ Cardinality(Matching(listing.anchors)) = 5
    /\ Cardinality(Candidates(listing)) = 4
    /\ built.raised = "RuntimeError"

Parsed(url) == parse_recipe(url, ServedWeb(failing)[url])

RECURSIVE IngredientsOf(_)
IngredientsOf(urls) ==
    IF urls = <<>> THEN <<>>
    ELSE Parsed(Head(urls)).ingredients \o IngredientsOf(Tail(urls))

\* C6: with at least 5 candidates build_menu takes 5 pairwise distinct candidates,
\* calls the parser once on each in order, and returns as menu the ones whose parse
\* succeeded, in selection order; the others are skipped, and the shopping list
\* holds exactly the ingredients of the recipes in the menu.
C6_MenuOfParsedSample ==
    (pc = "done" /\ listing.ok /\ Cardinality(Candidates(listing)) >= 5) =>
        LET good == SelectSeq(selected, LAMBDA u : Parsed(u).raised = "none")
            given == IngredientsOf(good)
        IN  /\ built.raised = "none"
            /\ Len(selected) = 5
            /\ Range(selected) \subseteq Candidates(listing)
            /\ \A i, j \in 1..5 : i /= j => selected[i] /= selected[j]
            /\ built.calls = selected
            /\ Len(built.menu) = Len(good)
            /\ \A i \in 1..Len(good) : built.menu[i] = <<Parsed(good[i]).name, good[i]>>
            /\ Len(built.menu) \in 0..5
            /\ \A i, j \in 1..Len(built.menu) :
                   i /= j => built.menu[i][2] /= built.menu[j][2]
            /\ {Lower(built.ingredients[i]) : i \in 1..Len(built.ingredients)}
                   = {Lower(Strip(given[i])) : i \in 1..Len(given)}

\* six candidates; one selected page cannot be parsed, the request of another fails:
\* five parser calls, a menu of three
C6_Witness ==
    /\ pc = "done"
    /\ Cardinality(Candidates(listing)) = 6
    /\ Url("doce") \in Range(selected) \ failing
    /\ Cardinality(failing) = 1
    /\ Url("doce") /= selected[5] /\ selected[5] \notin failing
    /\ Len(built.calls) = 5
    /\ Len(built.menu) = 3
    /\ built.menu[3][2] = selected[5]

-----------------------------------------------------------------------------
(* Spec: the process.  schedule_job registers job and loops over run_pending and   *)
(* sleep; a firing is job(): build_menu and compose_email, then send_email.        *)
(* run_pending calls job() with no handler around it, and neither has the loop,    *)
(* so an exception that leaves job() ends the process.                             *)

SUBJECT == "Cardapio semanal e lista de compras"

EnvValues == {Unset, [set |-> TRUE, value |-> <<>>], [set |-> TRUE, value |-> <<"x">>]}

Envs == [user : EnvValues, password : EnvValues, recipient : EnvValues]

SmtpOutcomes == {"connect_fails", "login_fails", "sendmail_fails", "accepts"}

\* the firings of Spec see these listing pages, samples and failing requests
\* (SpecMenu covers every sample and every set of failing requests)
SchedListings == {NoListing, ListingOf(4), ListingOf(5)}

SchedSamples(lst) ==
    LET got == get_recipe_urls(lst)
    IN  IF got.raised = "none" /\ Len(got.value) >= SampleSize
        THEN {[i \in 1..SampleSize |-> got.value[i]],
              [i \in 1..SampleSize |-> got.value[SampleSize + 1 - i]]}
        ELSE {<<>>}

SchedFailing == SUBSET {Url("arroz"), Url("bolo")}

LastPoll == MaxWeeks * PollsPerWeek

Init ==
    /\ pc = "run_pending"
    /\ now = 0
    /\ next_run \in 1..PollsPerWeek
    /\ env \in Envs
    /\ stdout = <<<<"Agente de cardapio iniciado. Aguardando o horario programado...">>>>
    /\ net = <<>>
    /\ outbox = <<>>
    /\ exc = "none"
    /\ mail = NoMail
    /\ corpo = <<>>
    /\ menu = <<>>
    /\ LinksOff /\ ParseOff /\ AggOff /\ MenuOff

\* schedule.run_pending() when the job is not due
RunPendingIdle ==
    /\ pc = "run_pending"
    /\ now < next_run
    /\ pc' = "sleep"
    /\ UNCHANGED <<schedVars, linksVars, parseVars, aggVars, menuVars, composeVars>>

\* schedule.run_pending() when the job is due: job() is entered
RunPendingDue ==
    /\ pc = "run_pending"
    /\ now >= next_run
    /\ pc' = "job"
    /\ stdout' = <<<<"Construindo cardapio...">>>>
    /\ net' = <<>>
    /\ outbox' = <<>>
    /\ mail' = NoMail
    /\ listing' = NoListing
    /\ selected' = <<>>
    /\ failing' = {}
    /\ built' = NoBuilt
    /\ corpo' = <<>>
    /\ UNCHANGED <<now, next_run, env, exc, recipe_urls, parseVars, aggVars, menu>>

\* job(), lines 217-218: an exception of build_menu leaves job()
JobBuild ==
    /\ pc = "job"
    /\ \E lst \in SchedListings :
       \E sel \in SchedSamples(lst) :
       \E fl \in SchedFailing :
          LET b == build_menu(lst, sel, ServedWeb(fl))
          IN  /\ listing' = lst
              /\ selected' = sel
              /\ failing' = fl
              /\ built' = b
              /\ net' = net \o [i \in 1..Len(b.fetched) |-> <<"GET">> \o b.fetched[i]]
              /\ stdout' = stdout \o b.stdout
              /\ IF b.raised /= "none"
                 THEN /\ exc' = b.raised
                      /\ pc' = "exited"
                      /\ corpo' = corpo
                 ELSE /\ exc' = exc
                      /\ pc' = "send"
                      /\ corpo' = compose_email(b.menu, b.ingredients)
    /\ UNCHANGED <<now, next_run, env, outbox, mail, recipe_urls, parseVars, aggVars, menu>>

\* job(), lines 219-223, and the return into run_pending, which schedules the next run
JobSend ==
    /\ pc = "send"
    /\ \E smtp \in SmtpOutcomes :
          LET r == send_email(env, SUBJECT, corpo, smtp)
              after == AfterSend(r)
          IN  /\ mail' = [called |-> TRUE, raised |-> r.raised, net |-> r.net,
                          sent |-> r.sent]
              /\ net' = net \o [i \in 1..Len(r.net) |-> <<"SMTP", r.net[i]>>]
              /\ outbox' = r.sent
              /\ stdout' = IF after.print = <<>> THEN stdout ELSE Append(stdout, after.print)
              /\ exc' = after.exc
              /\ IF after.exc = "none"
                 THEN pc' = "sleep" /\ next_run' = next_run + PollsPerWeek
                 ELSE pc' = "exited" /\ next_run' = next_run
    /\ UNCHANGED <<now, env, linksVars, parseVars, aggVars, menuVars, composeVars>>

\* time.sleep(60)
Sleep ==
    /\ pc = "sleep"
    /\ now < LastPoll
    /\ now' = now + 1
    /\ pc' = "run_pending"
    /\ UNCHANGED <<next_run, env, stdout, net, outbox, exc, mail, linksVars, parseVars,
                   aggVars, menuVars, composeVars>>

Next == RunPendingIdle \/ RunPendingDue \/ JobBuild \/ JobSend \/ Sleep

Spec == Init /\ [][Next]_vars

ConfigMissing == Missing(env.user) \/ Missing(env.password) \/ Missing(env.recipient)

Count(s, x) == Cardinality({i \in 1..Len(s) : s[i] = x})

\* C1: a firing that fails in build_menu for want of 5 recipe links does not end the
\* process: the loop goes on waiting for the next trigger.
C1_LoopSurvivesInsufficientRecipes ==
    built.raised = "RuntimeError" => (pc /= "exited" /\ exc = "none")

\* C2: a failure of send_email is caught by job() and logged: no exception leaves
\* job(), the loop is back waiting with the next run still ahead, and the send was
\* tried once.
C2_MailerFailureCaught ==
    (mail.called /\ mail.raised /= "none") =>
        /\ exc = "none"
        /\ pc \in {"sleep", "run_pending"}
        /\ next_run >= now
        /\ stdout[Len(stdout)] = <<"Falha ao enviar o e-mail", mail.raised>>
        /\ Count(net, <<"SMTP", "connect">>) <= 1
        /\ Count(net, <<"SMTP", "login">>) <= 1
        /\ Count(net, <<"SMTP", "sendmail">>) <= 1
        /\ outbox = <<>>

\* the login was refused; the loop sleeps
C2_Witness ==
    /\ mail.called
    /\ mail.raised = "SMTPException"
    /\ mail.net = <<"connect", "login">>
    /\ pc = "sleep"

\* C3: with one of the three configuration values absent or empty, send_email fails
\* with the configuration error and has opened no connection, logged in nowhere
\* and submitted nothing; it fails so only then; the values are those of the
\* environment at the call.
C3_ConfigCheckedBeforeNetwork ==
    mail.called =>
        /\ ConfigMissing <=> mail.raised = "RuntimeError"
        /\ ConfigMissing =>
               /\ mail.net = <<>>
               /\ mail.sent = <<>>
               /\ outbox = <<>>
               /\ \A i \in 1..Len(net) : net[i][1] /= "SMTP"
        /\ mail.sent /= <<>> =>
               /\ mail.sent[1].From = env.user.value
               /\ mail.sent[1].To = env.recipient.value

\* the credential is set but empty, the other two are set
C3_Witness ==
    /\ mail.called
    /\ ~Missing(env.user) /\ ~Missing(env.recipient)
    /\ env.password = [set |-> TRUE, value |-> <<>>]
    /\ mail.raised = "RuntimeError"
    /\ mail.net = <<>>
    /\ Len(net) > 0

=============================================================================
